---- MODULE Spec2Model ----
(***************************************************************************)
(* The moderation relay of app.py: a Flask application whose POST route    *)
(* /contenttextsafety validates a JSON body, reads two credentials from    *)
(* the process environment, makes one call to the Azure Content Safety     *)
(* service through an async client and reshapes the answer.                *)
(*                                                                         *)
(* Every inbound HTTP request is handled by a thread of its own (main.py   *)
(* serves the app with waitress, threads=4); the threads interleave at the *)
(* steps below.  The external service is the environment: its answer to a  *)
(* call is chosen nondeterministically.                                    *)
(***************************************************************************)
EXTENDS Integers, Sequences, FiniteSets

(* ---------------------------------------------------------------- bounds *)
\* The number of inbound requests handled concurrently.
NumRequests == 2
\* The longest per-category analysis list the service returns (SpecNorm).
MaxLen == 2

Requests == 1..NumRequests

(* ------------------------------------------------- Python values, encoded *)
\* Python's None and a present value: an optional x is <<>> or <<x>>.
None == <<>>
Some(x) == <<x>>

Min(a, b) == IF a < b THEN a ELSE b

(* -------------------------------------------------------- the environment *)
\* A secret key is a string, kept as its characters so that key[:5] is a slice.
SecretKey == <<"s", "3", "c", "r", "3", "t", "!">>
\* os.environ.get(name): None when unset, else the string (possibly empty).
KeyValues == {None, Some(<<>>), Some(SecretKey)}
EndpointValues == {None, Some("https://cs.example")}

\* key[:5]
FirstFive(k) == SubSeq(k, 1, Min(5, Len(k)))

\* `not key`: None and the empty string are both falsy.
NotStr(o, empty) == o = None \/ o[1] = empty

\* `not key or not endpoint` (app.py line 42).
\* (variant: `and` in place of `or`)
CredentialsMissing_and(k, e) == NotStr(k, <<>>) /\ NotStr(e, "")
CredentialsMissing(k, e) == NotStr(k, <<>>) \/ NotStr(e, "")

ConfigMessage == "Azure Content Safety credentials not configured. Set CONTENT_SAFETY_KEY and CONTENT_SAFETY_ENDPOINT environment variables."

(* ------------------------------------------------------------- exceptions *)
\* An exception: its class, str(e), and for an HttpResponseError the structured
\* error (code, message) the service supplied, if any.
Exc(type, message, error) == [type |-> type, message |-> message, error |-> error]
BadRequest == Exc("BadRequest", "400 Bad Request: Failed to decode JSON object", None)
UnsupportedMediaType == Exc("UnsupportedMediaType", "415 Unsupported Media Type", None)
TypeErrorNotIterable == Exc("TypeError", "argument of type 'int' is not iterable", None)
TypeErrorIndices == Exc("TypeError", "indices must be integers", None)
TypeErrorNoneIterable == Exc("TypeError", "'NoneType' object is not iterable", None)
StructuredError == Exc("HttpResponseError", "(InvalidRequestBody) The request body is invalid",
                       Some([code |-> "InvalidRequestBody", message |-> "The request body is invalid"]))
UnstructuredHttpError == Exc("HttpResponseError", "Operation returned an invalid status 'Unauthorized'", None)
ConnectionError == Exc("ServiceRequestError", "Cannot connect to host", None)
ServiceExceptions == {StructuredError, UnstructuredHttpError, ConnectionError}

\* str(e)
Str(e) == e.message
IsHttpResponseError(e) == e.type = "HttpResponseError"

(* ----------------------------------------------------------- request body *)
\* A parsed JSON value, as far as lines 100-103 look at it: its Python type,
\* whether it is falsy, whether `'text' in value` is true, and value['text'].
JV(kind, falsy, hasText, text) ==
    [kind |-> kind, falsy |-> falsy, hasText |-> hasText, text |-> text]
JNull == JV("null", TRUE, FALSE, None)
Texts == {None, Some("some words")}
ParsedValues ==
    { JNull,
      JV("int", TRUE, FALSE, None),       \* 0
      JV("int", FALSE, FALSE, None),      \* 5
      JV("str", FALSE, FALSE, None),      \* "hello"
      JV("str", FALSE, TRUE, None),       \* "context": 'text' is a substring
      JV("list", FALSE, TRUE, None),      \* ["text"]
      JV("dict", TRUE, FALSE, None),      \* {}
      JV("dict", FALSE, FALSE, None) }    \* {"other": 1}
    \cup { JV("dict", FALSE, TRUE, t) : t \in Texts }   \* {"text": t}

\* What arrives on the wire: no JSON body at all, bytes that are not JSON, or JSON.
Bodies ==
    { [wire |-> "missing", value |-> JNull], [wire |-> "malformed", value |-> JNull] }
    \cup { [wire |-> "json", value |-> v] : v \in ParsedValues }
NoBody == [wire |-> "missing", value |-> JNull]

\* request.get_json(): the outcomes Flask can produce.  Malformed JSON raises
\* BadRequest; a request that is not JSON gives None (Flask < 2.1) or raises
\* UnsupportedMediaType (Flask >= 2.1).
Returned(v) == [raised |-> None, value |-> v]
Raised(e) == [raised |-> Some(e), value |-> JNull]
get_json(b) ==
    CASE b.wire = "malformed" -> {Raised(BadRequest)}
      [] b.wire = "missing" -> {Returned(JNull), Raised(UnsupportedMediaType)}
      [] OTHER -> {Returned(b.value)}

\* Lines 100-103 on the parsed value:
\*   if not request_data or 'text' not in request_data: return 400
\*   text_to_analyze = request_data['text']
Validate(v) ==
    IF v.falsy THEN [verdict |-> "reject", exception |-> None]
    ELSE IF v.kind \in {"int", "bool"}
      THEN [verdict |-> "raise", exception |-> Some(TypeErrorNotIterable)]
    ELSE IF ~v.hasText THEN [verdict |-> "reject", exception |-> None]
    ELSE IF v.kind # "dict"
      THEN [verdict |-> "raise", exception |-> Some(TypeErrorIndices)]
    ELSE [verdict |-> "ok", exception |-> None]

(* -------------------------------------------------------------- responses *)
Resp(status, b) == [status |-> status, body |-> b]
ErrorBody(msg) == [error |-> msg]
ValidationResponse == Resp(400, ErrorBody("Request must include 'text' field"))
ConfigResponse == Resp(500, ErrorBody(ConfigMessage))

(* --------------------------------------------------- response normalizer *)
Categories == {"Hate", "SelfHarm", "Sexual", "Violence"}
Keys == {"hate", "selfHarm", "sexual", "violence"}
\* The TextCategory each key of `results` is looked up by (lines 61-64).
CategoryOf(k) ==
    CASE k = "hate" -> "Hate"
      [] k = "selfHarm" -> "SelfHarm"
      [] k = "sexual" -> "Sexual"
      [] k = "violence" -> "Violence"
Severities == {None, Some(0), Some(2)}
Items == [category : Categories, severity : Severities]
RawLists(n) == UNION { [1..k -> Items] : k \in 0..n }

\* next((item for item in list if item.category == c), None)
\* (variant: looks at the first entry only, by position)
FirstMatch_head(list, c) ==
    IF Len(list) > 0 /\ list[1].category = c THEN Some(list[1]) ELSE None
FirstMatch(list, c) ==
    LET hits == { i \in 1..Len(list) : list[i].category = c }
    IN IF hits = {} THEN None
       ELSE Some(list[CHOOSE i \in hits : \A j \in hits : i <= j])

\* Lines 69-77: {"severity": item.severity} if item else None, then the None
\* values are filtered out.
Normalize(list) ==
    LET results == [k \in Keys |->
                      LET item == FirstMatch(list, CategoryOf(k))
                      IN IF item # None THEN Some([severity |-> item[1].severity])
                         ELSE None]
    IN [k \in { k \in Keys : results[k] # None } |-> results[k][1]]

(* ------------------------------------------------------------------ state *)
VARIABLES
    envKey,       \* os.environ["CONTENT_SAFETY_KEY"], or None
    envEndpoint,  \* os.environ["CONTENT_SAFETY_ENDPOINT"], or None
    pc,           \* pc[r]: where request r's thread stands
    route,        \* route[r]: the route the request matched
    body,         \* body[r]: the request's body
    text,         \* text[r]: text_to_analyze / the parameter text
    key,          \* key[r]: the local `key` of analyze_content_safety
    endpoint,     \* endpoint[r]: the local `endpoint`
    client,       \* client[r]: the request's ContentSafetyClient
    outcome,      \* outcome[r]: what client.analyze_text gave (response or exception)
    exc,          \* exc[r]: the exception the request's thread caught, if any
    result,       \* result[r]: the (body, status) pair analyze_content_safety returned
    response,     \* response[r]: the HTTP response sent, if any
    stdout,       \* stdout[r]: the lines printed on behalf of request r, in order
    sent,         \* sent[r]: HTTP responses produced for request r
    lookups,      \* lookups[r]: reads of the credentials from the environment
    calls         \* calls[r]: outbound calls issued to the moderation service

vars == <<envKey, envEndpoint, pc, route, body, text, key, endpoint, client,
          outcome, exc, result, response, sent, stdout, lookups, calls>>

env == <<envKey, envEndpoint>>
\* Everything that belongs to request r alone.
Local(r) == <<pc[r], route[r], body[r], text[r], key[r], endpoint[r], client[r],
              outcome[r], exc[r], result[r], response[r], sent[r], stdout[r],
              lookups[r], calls[r]>>

Routes == {"/health", "/", "/contenttextsafety", "unmatched"}

\* The process has loaded its environment (load_dotenv, line 15); no request
\* has arrived yet.
Init ==
    /\ envKey \in KeyValues
    /\ envEndpoint \in EndpointValues
    /\ pc = [r \in Requests |-> "idle"]
    /\ route = [r \in Requests |-> "unmatched"]
    /\ body = [r \in Requests |-> NoBody]
    /\ text = [r \in Requests |-> None]
    /\ key = [r \in Requests |-> None]
    /\ endpoint = [r \in Requests |-> None]
    /\ client = [r \in Requests |-> "none"]
    /\ outcome = [r \in Requests |-> None]
    /\ exc = [r \in Requests |-> None]
    /\ result = [r \in Requests |-> None]
    /\ response = [r \in Requests |-> None]
    /\ sent = [r \in Requests |-> 0]
    /\ stdout = [r \in Requests |-> <<>>]
    /\ lookups = [r \in Requests |-> 0]
    /\ calls = [r \in Requests |-> 0]

Goto(r, label) == pc' = [pc EXCEPT ![r] = label]
Log(r, line) == stdout' = [stdout EXCEPT ![r] = Append(@, line)]
Send(r, resp) ==
    /\ response' = [response EXCEPT ![r] = Some(resp)]
    /\ sent' = [sent EXCEPT ![r] = @ + 1]

(* ---------------------------------------------------------------- routing *)
\* A request arrives and Flask matches its route.  Only the POST route reads a body.
Arrive(r) ==
    /\ pc[r] = "idle"
    /\ \E rt \in Routes, b \in Bodies :
          /\ route' = [route EXCEPT ![r] = rt]
          /\ body' = [body EXCEPT ![r] = IF rt = "/contenttextsafety" THEN b ELSE NoBody]
    /\ Goto(r, "dispatch")
    /\ UNCHANGED <<env, text, key, endpoint, client, outcome, exc, result, response, sent,
                   stdout, lookups, calls>>

health_check(r) ==
    /\ pc[r] = "dispatch" /\ route[r] = "/health"
    /\ Send(r, Resp(200, [status |-> "healthy"]))
    /\ Goto(r, "done")
    /\ UNCHANGED <<env, route, body, text, key, endpoint, client, outcome, exc, result,
                   stdout, lookups, calls>>

hello_world(r) ==
    /\ pc[r] = "dispatch" /\ route[r] = "/"
    /\ Send(r, Resp(200, [message |-> "Hello, World!"]))
    /\ Goto(r, "done")
    /\ UNCHANGED <<env, route, body, text, key, endpoint, client, outcome, exc, result,
                   stdout, lookups, calls>>

not_found(r) ==
    /\ pc[r] = "dispatch" /\ route[r] = "unmatched"
    /\ Send(r, Resp(404, ErrorBody("Resource not found")))
    /\ Goto(r, "done")
    /\ UNCHANGED <<env, route, body, text, key, endpoint, client, outcome, exc, result,
                   stdout, lookups, calls>>

(* ------------------------------------------------- content_text_safety *)
\* Lines 99-103: parse the body, validate it, take request_data['text'].
content_text_safety(r) ==
    /\ pc[r] = "dispatch" /\ route[r] = "/contenttextsafety"
    /\ \E got \in get_json(body[r]) :
          IF got.raised # None
          THEN /\ exc' = [exc EXCEPT ![r] = got.raised]
               /\ Goto(r, "route_except")
               /\ UNCHANGED <<text, response, sent>>
          ELSE LET v == Validate(got.value) IN
               CASE v.verdict = "reject" ->
                      /\ Send(r, ValidationResponse)
                      /\ Goto(r, "done")
                      /\ UNCHANGED <<text, exc>>
                 [] v.verdict = "raise" ->
                      /\ exc' = [exc EXCEPT ![r] = v.exception]
                      /\ Goto(r, "route_except")
                      /\ UNCHANGED <<text, response, sent>>
                 [] OTHER ->
                      /\ text' = [text EXCEPT ![r] = got.value.text]
                      /\ Goto(r, "credentials")
                      /\ UNCHANGED <<exc, response, sent>>
    /\ UNCHANGED <<env, route, body, key, endpoint, client, outcome, result,
                   stdout, lookups, calls>>

\* Lines 110-125: the route's handlers for an exception raised in its try block.
\* The HttpResponseError handler prints nothing; the generic one prints str(e).
RouteExcept(r) ==
    /\ pc[r] = "route_except"
    /\ LET e == exc[r][1] IN
       IF IsHttpResponseError(e)
       THEN /\ Send(r, Resp(500, [error |-> "Azure Content Safety API error",
                                  details |-> IF e.error # None THEN e.error[1] ELSE <<>>]))
            /\ UNCHANGED stdout
       ELSE /\ Log(r, [tag |-> "error", where |-> "content_text_safety", msg |-> Str(e)])
            /\ Send(r, Resp(500, ErrorBody(Str(e))))
    /\ Goto(r, "done")
    /\ UNCHANGED <<env, route, body, text, key, endpoint, client, outcome, exc, result,
                   lookups, calls>>

\* Lines 106-108: asyncio.run returned (result, status_code); jsonify it.
ReturnResult(r) ==
    /\ pc[r] = "return"
    /\ Send(r, result[r][1])
    /\ Goto(r, "done")
    /\ UNCHANGED <<env, route, body, text, key, endpoint, client, outcome, exc, result,
                   stdout, lookups, calls>>

(* ---------------------------------------------- analyze_content_safety *)
\* Lines 36-46: read the credentials, print the diagnostics, and give up with
\* the configuration error when either is missing.
ReadCredentials(r) ==
    /\ pc[r] = "credentials"
    /\ key' = [key EXCEPT ![r] = envKey]
    /\ endpoint' = [endpoint EXCEPT ![r] = envEndpoint]
    /\ lookups' = [lookups EXCEPT ![r] = @ + 1]
    /\ stdout' = [stdout EXCEPT ![r] =
          @ \o << [tag |-> "key", found |-> ~NotStr(envKey, <<>>),
                   shown |-> IF NotStr(envKey, <<>>) THEN <<>> ELSE FirstFive(envKey[1])],
                  [tag |-> "endpoint", value |-> envEndpoint] >>]
    /\ IF CredentialsMissing(envKey, envEndpoint)
       THEN /\ result' = [result EXCEPT ![r] = Some(ConfigResponse)]
            /\ Goto(r, "return")
       ELSE /\ Goto(r, "create_client")
            /\ UNCHANGED result
    /\ UNCHANGED <<env, route, body, text, client, outcome, exc, response, sent, calls>>

\* Line 49: client = ContentSafetyClient(endpoint, AzureKeyCredential(key)).
CreateClient(r) ==
    /\ pc[r] = "create_client"
    /\ client' = [client EXCEPT ![r] = "created"]
    /\ Goto(r, "enter_client")
    /\ UNCHANGED <<env, route, body, text, key, endpoint, outcome, exc, result, response, sent,
                   stdout, lookups, calls>>

\* Line 52: `async with client` enters the client (opens its transport).
EnterClient(r) ==
    /\ pc[r] = "enter_client"
    /\ client' = [client EXCEPT ![r] = "open"]
    /\ Goto(r, "call")
    /\ UNCHANGED <<env, route, body, text, key, endpoint, outcome, exc, result, response, sent,
                   stdout, lookups, calls>>

\* Lines 54-57: build AnalyzeTextOptions(text=text) and send it; the coroutine
\* is suspended until the service answers.
IssueCall(r) ==
    /\ pc[r] = "call"
    /\ calls' = [calls EXCEPT ![r] = @ + 1]
    /\ Goto(r, "awaiting")
    /\ UNCHANGED <<env, route, body, text, key, endpoint, client, outcome, exc, result,
                   response, sent, stdout, lookups>>

\* The service's answer to the pending call: a response whose
\* categories_analysis is a list from `lists` or is missing, or an exception.
ServiceOutcomes(lists) ==
    { [raised |-> None, categories_analysis |-> Some(l)] : l \in lists }
    \cup { [raised |-> None, categories_analysis |-> None] }
    \cup { [raised |-> Some(e), categories_analysis |-> None] : e \in ServiceExceptions }

CallReturns(r, lists) ==
    /\ pc[r] = "awaiting"
    /\ \E o \in ServiceOutcomes(lists) : outcome' = [outcome EXCEPT ![r] = Some(o)]
    /\ Goto(r, "exit_client")
    /\ UNCHANGED <<env, route, body, text, key, endpoint, client, exc, result, response, sent,
                   stdout, lookups, calls>>

\* The state of the client when the `async with` block is left: __aexit__
\* closes it whether the block ended normally or by an exception.
\* (variant: no cleanup when the block ends by an exception)
ClientAfterBlock_leak(o) == IF o.raised # None THEN "open" ELSE "closed"
ClientAfterBlock(o) == "closed"

\* The `clients` mapping after request r's client has been set to state s.
\* (variant: one client object shared by all requests)
SetClient_shared(cl, r, s) == [q \in Requests |-> IF cl[q] = "open" THEN s ELSE cl[q]]
SetClient(cl, r, s) == [cl EXCEPT ![r] = s]

\* Line 52-57, leaving the `async with` block: the client is released, then the
\* response is normalized or the exception propagates to line 84.
ExitClient(r) ==
    /\ pc[r] = "exit_client"
    /\ client' = SetClient(client, r, ClientAfterBlock(outcome[r][1]))
    /\ IF outcome[r][1].raised # None
       THEN /\ exc' = [exc EXCEPT ![r] = outcome[r][1].raised]
            /\ Goto(r, "analyze_except")
       ELSE /\ Goto(r, "normalize")
            /\ UNCHANGED exc
    /\ UNCHANGED <<env, route, body, text, key, endpoint, outcome, result, response, sent,
                   stdout, lookups, calls>>

\* Lines 61-82: look the four categories up, print hate_result, build results.
\* Iterating a missing categories_analysis raises TypeError (line 61).
NormalizeResponse(r) ==
    /\ pc[r] = "normalize"
    /\ LET ca == outcome[r][1].categories_analysis IN
       IF ca = None
       THEN /\ exc' = [exc EXCEPT ![r] = Some(TypeErrorNoneIterable)]
            /\ Goto(r, "analyze_except")
            /\ UNCHANGED <<result, stdout>>
       ELSE /\ Log(r, [tag |-> "hate_result", item |-> FirstMatch(ca[1], "Hate")])
            /\ result' = [result EXCEPT ![r] =
                  Some(Resp(200, [text |-> text[r], results |-> Normalize(ca[1])]))]
            /\ Goto(r, "return")
            /\ UNCHANGED exc
    /\ UNCHANGED <<env, route, body, text, key, endpoint, client, outcome, response, sent,
                   lookups, calls>>

\* Where the thread goes after the handler of line 84 has run: it returns.
\* (variant: the call is tried once more after a failure)
AfterAnalyzeExcept_retry(n) == IF n < 2 THEN "create_client" ELSE "return"
AfterAnalyzeExcept(n) == "return"

\* The lines the handler of line 84 prints for exception e.
\* (variant: the handler prints nothing)
AnalyzeExceptLines_silent(e) == <<>>
AnalyzeExceptLines(e) ==
    << [tag |-> "error", where |-> "analyze_content_safety", msg |-> Str(e)] >>

\* Lines 84-86: every exception raised in analyze_content_safety is caught
\* there, printed and turned into ({"error": str(e)}, 500).
AnalyzeExcept(r) ==
    /\ pc[r] = "analyze_except"
    /\ stdout' = [stdout EXCEPT ![r] = @ \o AnalyzeExceptLines(exc[r][1])]
    /\ result' = [result EXCEPT ![r] = Some(Resp(500, ErrorBody(Str(exc[r][1]))))]
    /\ Goto(r, AfterAnalyzeExcept(calls[r]))
    /\ UNCHANGED <<env, route, body, text, key, endpoint, client, outcome, exc, response, sent,
                   lookups, calls>>

(* --------------------------------------------------------- specifications *)
\* The lists the service answers with in Spec: the spec's example, and one with
\* a repeated category and a severity that is null.
SampleLists ==
    { << [category |-> "Hate", severity |-> Some(2)],
         [category |-> "Violence", severity |-> Some(0)] >>,
      << [category |-> "Sexual", severity |-> None],
         [category |-> "Sexual", severity |-> Some(2)] >> }

Step(r, lists) ==
    \/ Arrive(r)
    \/ health_check(r)
    \/ hello_world(r)
    \/ not_found(r)
    \/ content_text_safety(r)
    \/ ReadCredentials(r)
    \/ CreateClient(r)
    \/ EnterClient(r)
    \/ IssueCall(r)
    \/ CallReturns(r, lists)
    \/ ExitClient(r)
    \/ NormalizeResponse(r)
    \/ AnalyzeExcept(r)
    \/ ReturnResult(r)
    \/ RouteExcept(r)

\* Concurrent requests, each answered by the service with a sample list.
Next == \E r \in Requests : Step(r, SampleLists)
Spec == Init /\ [][Next]_vars

\* One request, answered by the service with any list of at most MaxLen entries.
NextNorm == Step(1, RawLists(MaxLen))
SpecNorm == Init /\ [][NextNorm]_vars

(* ----------------------------------------------------- claim vocabulary *)
Done(r) == pc[r] = "done"
IsPost(r) == pc[r] # "idle" /\ route[r] = "/contenttextsafety"
\* The body is missing, is not JSON, or parses to a value without a 'text' field.
LacksText(b) == b.wire # "json" \/ ~(b.value.kind = "dict" /\ b.value.hasText)
\* The service's answer to request r's call was an exception.
CallFailed(r) == outcome[r] # None /\ outcome[r][1].raised # None
\* The list the service returned to request r, when it returned one.
HasList(r) == outcome[r] # None /\ outcome[r][1].categories_analysis # None
ListOf(r) == outcome[r][1].categories_analysis[1]
IsErrorResponse(r) == response[r] # None /\ response[r][1].status >= 400
ErrorLines(r) == { i \in DOMAIN stdout[r] : stdout[r][i].tag = "error" }
Permutations(n) == { p \in [1..n -> 1..n] : \A i, j \in 1..n : i # j => p[i] # p[j] }
Reorderings(l) == { [i \in 1..Len(l) |-> l[p[i]]] : p \in Permutations(Len(l)) }
NoRepeats(l) == \A i, j \in 1..Len(l) : i # j => l[i].category # l[j].category

(* ------------------------------------------------------------------ C1 *)
\* C1: every finished POST whose body is missing, is not JSON, or lacks a
\* 'text' field was answered with exactly 400 and the fixed message, and made
\* no credential lookup and no outbound call.
C1_Claim ==
    \A r \in Requests :
        (Done(r) /\ IsPost(r) /\ LacksText(body[r]))
        => /\ response[r] = Some(ValidationResponse)
           /\ lookups[r] = 0
           /\ calls[r] = 0

(* ------------------------------------------------------------------ C2 *)
\* C2 as stated: with CONTENT_SAFETY_KEY or CONTENT_SAFETY_ENDPOINT unset, every
\* finished POST was answered with 500 and the configuration message, with no
\* client created and no outbound call.
C2_Claim ==
    \A r \in Requests :
        (Done(r) /\ IsPost(r) /\ (envKey = None \/ envEndpoint = None))
        => /\ response[r] = Some(ConfigResponse)
           /\ client[r] = "none"
           /\ calls[r] = 0

\* C2 amended: with either credential unset, every finished POST whose body is
\* a JSON object with a 'text' field was answered with 500 and the configuration
\* message, with no client created and no outbound call.
C2_Amended ==
    \A r \in Requests :
        (Done(r) /\ IsPost(r) /\ ~LacksText(body[r])
            /\ (envKey = None \/ envEndpoint = None))
        => /\ response[r] = Some(ConfigResponse)
           /\ client[r] = "none"
           /\ calls[r] = 0

C2_Witness ==
    \E r \in Requests :
        /\ Done(r) /\ IsPost(r) /\ ~LacksText(body[r])
        /\ envKey = None /\ envEndpoint # None
        /\ lookups[r] = 1
        /\ response[r] = Some(ConfigResponse)

(* ------------------------------------------------------------------ C3 *)
\* C3: when the outbound call failed with a structured service error the
\* response is 500 with the Azure error envelope and the error's code and
\* message; for any other failure of the call it is 500 with str(exception).
C3_Claim ==
    \A r \in Requests :
        (Done(r) /\ CallFailed(r))
        => LET e == outcome[r][1].raised[1] IN
           IF IsHttpResponseError(e) /\ e.error # None
           THEN response[r] = Some(Resp(500, [error |-> "Azure Content Safety API error",
                                              details |-> e.error[1]]))
           ELSE response[r] = Some(Resp(500, ErrorBody(Str(e))))

(* ------------------------------------------------------------------ C4 *)
\* C4: in every normalized result, each of the four keys is present exactly
\* when the service's list has an entry of that category with a non-null
\* severity; a present key maps to that entry's severity, never to null.
C4_Claim ==
    \A r \in Requests :
        (Done(r) /\ IsPost(r) /\ response[r][1].status = 200)
        => LET res == response[r][1].body.results
               hits(k) == { i \in 1..Len(ListOf(r)) :
                              /\ ListOf(r)[i].category = CategoryOf(k)
                              /\ ListOf(r)[i].severity # None }
           IN \A k \in Keys :
                /\ k \in DOMAIN res <=> hits(k) # {}
                /\ k \in DOMAIN res =>
                      /\ res[k].severity # None
                      /\ \E i \in hits(k) : res[k] = [severity |-> ListOf(r)[i].severity]

(* ------------------------------------------------------------------ C5 *)
\* C5: an outbound call is issued for a request only if its parsed body has a
\* 'text' field that is not null.
C5_Claim ==
    \A r \in Requests :
        calls[r] > 0 => (~LacksText(body[r]) /\ body[r].value.text # None)

(* ------------------------------------------------------------------ C6 *)
\* C6: a POST that passes validation with both credentials configured issues
\* exactly one outbound call; a failed call is never followed by another call
\* of the same request, and exactly one response is produced.
C6_ExactlyOneCall ==
    \A r \in Requests :
        /\ calls[r] <= 1
        /\ sent[r] <= 1
        /\ CallFailed(r) => calls[r] = 1
        /\ (Done(r) /\ IsPost(r) /\ ~LacksText(body[r])
                /\ ~CredentialsMissing(envKey, envEndpoint))
           => (calls[r] = 1 /\ sent[r] = 1)

C6_Witness ==
    \E r \in Requests :
        /\ Done(r) /\ CallFailed(r) /\ calls[r] = 1
        /\ response[r] = Some(Resp(500, ErrorBody(Str(outcome[r][1].raised[1]))))

(* ------------------------------------------------------------------ C7 *)
\* C7: once the `async with` block has been left - on success, on a structured
\* service error and on any other exception - the request's client is closed,
\* and it stays closed; no response is produced with the client still open.
C7_ClientReleased ==
    \A r \in Requests :
        /\ pc[r] \in {"normalize", "analyze_except", "return", "done"}
              => client[r] \in {"none", "closed"}
        /\ response[r] # None => client[r] \in {"none", "closed"}
        /\ (response[r] # None /\ calls[r] > 0) => client[r] = "closed"

C7_Witness ==
    \E r \in Requests :
        /\ Done(r) /\ CallFailed(r)
        /\ outcome[r][1].raised[1] = StructuredError
        /\ client[r] = "closed"

(* ------------------------------------------------------------------ C8 *)
\* C8 as stated: every error response (validation, missing credentials,
\* transport failure, other exception, unmatched route) is preceded by a line
\* printed for that request.
C8_Claim ==
    \A r \in Requests : IsErrorResponse(r) => stdout[r] # <<>>

\* C8 amended: a failure that reached an exception handler (line 84 or line
\* 122) has its message printed before the response; a missing-credentials
\* response is preceded by the two credential diagnostics; a validation
\* failure (400) and an unmatched route (404) print nothing.
C8_Amended ==
    \A r \in Requests :
        response[r] # None =>
          /\ exc[r] # None
                => \E i \in ErrorLines(r) : stdout[r][i].msg = Str(exc[r][1])
          /\ response[r] = Some(ConfigResponse)
                => /\ Len(stdout[r]) = 2
                   /\ stdout[r][1].tag = "key"
                   /\ stdout[r][2].tag = "endpoint"
          /\ response[r][1].status \in {400, 404} => stdout[r] = <<>>

C8_Witness ==
    \E r \in Requests :
        /\ Done(r) /\ CallFailed(r) /\ IsErrorResponse(r)
        /\ \E i \in ErrorLines(r) :
              /\ stdout[r][i].where = "analyze_content_safety"
              /\ stdout[r][i].msg = Str(exc[r][1])

(* ------------------------------------------------------------------ C9 *)
\* What analyze_content_safety answers, from the request's own text, the
\* credentials it read and the outcome of its own call.
OwnAnswer(r) ==
    IF CredentialsMissing(key[r], endpoint[r]) THEN ConfigResponse
    ELSE IF CallFailed(r) THEN Resp(500, ErrorBody(Str(outcome[r][1].raised[1])))
    ELSE IF ~HasList(r) THEN Resp(500, ErrorBody(Str(TypeErrorNoneIterable)))
    ELSE Resp(200, [text |-> text[r], results |-> Normalize(ListOf(r))])

\* C9: under every interleaving, a step of one request leaves every other
\* request's state (client, call, response) and the environment untouched, and
\* a request's response is determined by its own text, the credentials it read
\* and the outcome of its own call.
C9_Independent ==
    /\ [][/\ UNCHANGED env
          /\ Cardinality({ r \in Requests : Local(r)' # Local(r) }) <= 1]_vars
    /\ [](\A r \in Requests :
            (Done(r) /\ lookups[r] > 0) => response[r] = Some(OwnAnswer(r)))

C9_Witness ==
    \E r, q \in Requests :
        /\ r # q
        /\ pc[r] = "awaiting" /\ client[r] = "open"
        /\ Done(q) /\ client[q] = "closed" /\ calls[q] = 1

(* ----------------------------------------------------------------- C10 *)
\* C10 as stated: the normalized results are the same for every reordering of
\* the service's list.
C10_Claim ==
    \A r \in Requests :
        (Done(r) /\ HasList(r))
        => \A l \in Reorderings(ListOf(r)) :
              Normalize(l) = response[r][1].body.results

\* C10 amended: the normalized results are the same for every reordering of a
\* list in which no category occurs twice.
C10_Amended ==
    \A r \in Requests :
        (Done(r) /\ HasList(r) /\ NoRepeats(ListOf(r)))
        => \A l \in Reorderings(ListOf(r)) :
              Normalize(l) = response[r][1].body.results

C10_Witness ==
    \E r \in Requests :
        /\ Done(r) /\ HasList(r) /\ NoRepeats(ListOf(r))
        /\ Len(ListOf(r)) = 2
        /\ DOMAIN response[r][1].body.results = {"hate", "violence"}

====
